---- MODULE Spec2Model ----
(***************************************************************************)
(* Model of the BIM processing service (services/bim-processor):           *)
(*   - the job store and the upload / process / status handlers of main.py *)
(*   - the file validation and element extraction of the two processors    *)
(*   - the element classifier and its cache                                *)
(*                                                                         *)
(* The handlers are `async def` functions without any await, so each runs  *)
(* to completion on the event loop before another handler starts.  The     *)
(* process handler is modelled write by write (pc), and no other handler  *)
(* is enabled while pc # "idle".  The file system is external: every       *)
(* access observes some file kind, chosen anew at each access.             *)
(***************************************************************************)
EXTENDS Integers, Sequences, FiniteSets, TLC

\* ------------------------------------------------------------------ bounds
MaxRequests == 3      \* uploads stored plus process invocations started
MaxElems == 2         \* native elements enumerated from an IFC file
MaxCache == 1         \* entries the classifier cache may hold
MaxVerts == 2         \* vertices handed to _calculate_bounding_box
MaxWords == 2         \* words in a name / values in a properties dict

\* --------------------------------------------------------------- constants
SampleCount == 6      \* len(sample_categories), the Revit placeholder elements

ModelIds == 1..(MaxRequests + 1)   \* ids a request may name; one is never used
FileTypes == {"ifc", "revit"}
Paths == {"m.ifc", "m.rvt"}
\* what an access to a path finds: nothing, a directory, an empty file,
\* unparseable bytes, an IFC file without schema, IFC content, OLE content
FileKinds == {"missing", "dir", "empty", "garbage", "noschema", "ifc", "ole"}
\* per native element: processed, no geometry (None), exception raised
Outcomes == {"ok", "nogeom", "exc"}

NoJob == [status |-> "absent"]
NoResponse == [op |-> "none", code |-> 0]
NoMsg == "<None>"

VARIABLES
    store,          \* processing_status_store
    attempts,       \* per id: process invocations started on the stored job
    pc,             \* position of the in-flight process invocation
    cur,            \* model_id of the in-flight process invocation
    native,         \* building_elements of the in-flight extraction
    elements,       \* elements returned by extract_elements
    response,       \* response to the latest request (none while it is handled)
    ifcAvail,       \* IFCOPENSHELL_AVAILABLE
    oleAvail,       \* OLEFILE_AVAILABLE
    cache,          \* ElementClassifier._classification_cache
    lastCall,       \* the last operation on the classifier (request or clear)
    lastRes         \* what that operation returned

vars == <<store, attempts, pc, cur, native, elements, response,
          ifcAvail, oleAvail, cache, lastCall, lastRes>>
clsVars == <<cache, lastCall, lastRes>>
jobVars == <<store, attempts, pc, cur, native, elements, response>>
envVars == <<ifcAvail, oleAvail>>

\* ------------------------------------------------------------ file helpers
Ext(p) == IF p = "m.ifc" THEN "ifc" ELSE "rvt"

\* IFCProcessor.can_process
IfcCanProcess(p) == Ext(p) = "ifc"

\* RevitProcessor.can_process: extension, then olefile.isOleFile when present
RevitCanProcess(p, kind) ==
    IF Ext(p) # "rvt" THEN FALSE
    ELSE IF oleAvail THEN kind = "ole"
    ELSE TRUE

\* IFCProcessor.validate_file -> (is_valid, error_message)
IfcValidateFile(p, kind) ==
    IF ~ifcAvail THEN [ok |-> FALSE, msg |-> "IfcOpenShell library not available"]
    ELSE IF kind = "missing" THEN [ok |-> FALSE, msg |-> "File not found"]
    ELSE IF kind = "dir" THEN [ok |-> FALSE, msg |-> "Path is not a file"]
    ELSE IF kind = "empty" THEN [ok |-> FALSE, msg |-> "File is empty"]
    ELSE IF ~IfcCanProcess(p) THEN [ok |-> FALSE, msg |-> "Not a valid IFC file"]
    ELSE IF kind = "noschema" THEN [ok |-> FALSE, msg |-> "IFC file has no valid schema"]
    ELSE IF kind # "ifc" THEN [ok |-> FALSE, msg |-> "Cannot open IFC file"]
    ELSE [ok |-> TRUE, msg |-> NoMsg]

\* RevitProcessor.validate_file -> (is_valid, error_message)
RevitValidateFile(p, kind) ==
    IF kind = "missing" THEN [ok |-> FALSE, msg |-> "File not found"]
    ELSE IF kind = "dir" THEN [ok |-> FALSE, msg |-> "Path is not a file"]
    ELSE IF kind = "empty" THEN [ok |-> FALSE, msg |-> "File is empty"]
    ELSE IF ~RevitCanProcess(p, kind) THEN [ok |-> FALSE, msg |-> "Not a valid Revit file format"]
    ELSE [ok |-> TRUE, msg |-> NoMsg]

ValidateFile(ft, p, kind) ==
    IF ft = "ifc" THEN IfcValidateFile(p, kind) ELSE RevitValidateFile(p, kind)

\* variant of ExtractPrecheck: extract_elements does not validate the file
ExtractPrecheck_SkipsValidation(ft, p, kind) ==
    IF ft = "ifc" /\ ~ifcAvail
    THEN [ok |-> FALSE, msg |-> "IfcOpenShell library not available"]
    ELSE [ok |-> TRUE, msg |-> NoMsg]

\* the head of extract_elements: the capability check (ifc 157-158) and the
\* processor's own validate_file (ifc 162-165, revit 138-141); not ok means
\* the processor's file error is raised with msg
ExtractPrecheck(ft, p, kind) ==
    IF ft = "ifc" /\ ~ifcAvail
    THEN [ok |-> FALSE, msg |-> "IfcOpenShell library not available"]
    ELSE ValidateFile(ft, p, kind)

\* the loop of IFCProcessor.extract_elements over building_elements: an
\* element is appended when _process_ifc_element returns one; None (no
\* geometry) and a raised exception both skip it.  Elements are named by
\* their position in the enumeration (external_id).
RECURSIVE ProcessElements(_, _)
ProcessElements(nat, i) ==
    IF i > Len(nat) THEN <<>>
    ELSE IF nat[i] = "ok" THEN <<i>> \o ProcessElements(nat, i + 1)
    ELSE ProcessElements(nat, i + 1)

NativeLists == UNION {[1..n -> Outcomes] : n \in 0..MaxElems}

\* RevitProcessor._create_sample_elements
SampleElements == [i \in 1..SampleCount |-> i]

\* the exception class a processor raises
FileError(ft) == IF ft = "ifc" THEN "IFCFileError" ELSE "RevitFileError"

\* processor.extract_elements on a file that stays as it is during the
\* call; nat is what the enumeration of an IFC file yields
ExtractElements(ft, p, kind, nat) ==
    LET r == ExtractPrecheck(ft, p, kind) IN
    IF ~r.ok
    THEN [raised |-> TRUE, error |-> FileError(ft), msg |-> r.msg, elements |-> <<>>]
    ELSE [raised |-> FALSE, error |-> "none", msg |-> NoMsg,
          elements |-> IF ft = "ifc" THEN ProcessElements(nat, 1) ELSE SampleElements]


\* =============================================================== classifier
\* Strings the classifier inspects are sequences of characters, so that
\* lower(), substring search, str() and the cache-key f-strings are computed.
None == [some |-> FALSE, v |-> <<>>]
Some(x) == [some |-> TRUE, v |-> x]

UpperChars == <<"A", "B", "C", "D", "E", "F", "G", "H", "I", "J", "K", "L", "M",
                "N", "O", "P", "Q", "R", "S", "T", "U", "V", "W", "X", "Y", "Z">>
LowerChars == <<"a", "b", "c", "d", "e", "f", "g", "h", "i", "j", "k", "l", "m",
                "n", "o", "p", "q", "r", "s", "t", "u", "v", "w", "x", "y", "z">>
\* variant of LowerChar: the text is compared as it is written
LowerChar_KeepsCase(c) == c

\* str.lower()
LowerChar(c) ==
    IF \E i \in 1..26 : UpperChars[i] = c
    THEN LowerChars[CHOOSE i \in 1..26 : UpperChars[i] = c]
    ELSE c
Lower(s) == [i \in 1..Len(s) |-> LowerChar(s[i])]

\* `needle in hay`
Contains(hay, needle) ==
    \E i \in 1..(Len(hay) - Len(needle) + 1) :
        \A j \in 1..Len(needle) : hay[i + j - 1] = needle[j]

\* str(int)
DigitChars == <<"0", "1", "2", "3", "4", "5", "6", "7", "8", "9">>
RECURSIVE NatStr(_)
NatStr(n) == IF n < 10 THEN <<DigitChars[n + 1]>>
             ELSE NatStr(n \div 10) \o <<DigitChars[(n % 10) + 1]>>
IntStr(n) == IF n < 0 THEN <<"-">> \o NatStr(0 - n) ELSE NatStr(n)

\* int(str): an optional sign followed by decimal digits, else ValueError
IsDigit(c) == \E i \in 1..10 : DigitChars[i] = c
DigitVal(c) == (CHOOSE i \in 1..10 : DigitChars[i] = c) - 1
RECURSIVE DigitsVal(_)
DigitsVal(s) == IF Len(s) = 0 THEN 0
                ELSE 10 * DigitsVal(SubSeq(s, 1, Len(s) - 1)) + DigitVal(s[Len(s)])
AllDigits(s) == Len(s) > 0 /\ \A i \in 1..Len(s) : IsDigit(s[i])
IsIntLiteral(s) ==
    IF Len(s) > 0 /\ s[1] \in {"-", "+"} THEN AllDigits(Tail(s)) ELSE AllDigits(s)
ParseInt(s) ==
    IF s[1] = "-" THEN 0 - DigitsVal(Tail(s))
    ELSE IF s[1] = "+" THEN DigitsVal(Tail(s))
    ELSE DigitsVal(s)

NoneStr == <<"N", "o", "n", "e">>
\* str() of an optional string / an optional int, as the f-strings apply it
OptStr(o) == IF o.some THEN o.v ELSE NoneStr
OptIntStr(o) == IF o.some THEN IntStr(o.v) ELSE NoneStr

\* ElementClassifier.IFC_TYPE_MAPPING, as <<entity name, category>> pairs
IFC_TYPE_MAPPING == {
    <<<<"I", "f", "c", "W", "a", "l", "l">>, "wall">>,
    <<<<"I", "f", "c", "W", "a", "l", "l", "S", "t", "a", "n", "d", "a", "r", "d", "C", "a", "s", "e">>, "wall">>,
    <<<<"I", "f", "c", "C", "u", "r", "t", "a", "i", "n", "W", "a", "l", "l">>, "wall">>,
    <<<<"I", "f", "c", "S", "l", "a", "b">>, "floor">>,
    <<<<"I", "f", "c", "S", "l", "a", "b", "S", "t", "a", "n", "d", "a", "r", "d", "C", "a", "s", "e">>, "floor">>,
    <<<<"I", "f", "c", "C", "o", "l", "u", "m", "n">>, "column">>,
    <<<<"I", "f", "c", "C", "o", "l", "u", "m", "n", "S", "t", "a", "n", "d", "a", "r", "d", "C", "a", "s", "e">>, "column">>,
    <<<<"I", "f", "c", "B", "e", "a", "m">>, "beam">>,
    <<<<"I", "f", "c", "B", "e", "a", "m", "S", "t", "a", "n", "d", "a", "r", "d", "C", "a", "s", "e">>, "beam">>,
    <<<<"I", "f", "c", "R", "o", "o", "f">>, "roof">>,
    <<<<"I", "f", "c", "D", "o", "o", "r">>, "door">>,
    <<<<"I", "f", "c", "D", "o", "o", "r", "S", "t", "a", "n", "d", "a", "r", "d", "C", "a", "s", "e">>, "door">>,
    <<<<"I", "f", "c", "W", "i", "n", "d", "o", "w">>, "window">>,
    <<<<"I", "f", "c", "W", "i", "n", "d", "o", "w", "S", "t", "a", "n", "d", "a", "r", "d", "C", "a", "s", "e">>, "window">>,
    <<<<"I", "f", "c", "S", "t", "a", "i", "r">>, "stair">>,
    <<<<"I", "f", "c", "S", "t", "a", "i", "r", "F", "l", "i", "g", "h", "t">>, "stair">>,
    <<<<"I", "f", "c", "R", "a", "i", "l", "i", "n", "g">>, "railing">>,
    <<<<"I", "f", "c", "R", "a", "i", "l", "i", "n", "g", "T", "y", "p", "e">>, "railing">>,
    <<<<"I", "f", "c", "F", "o", "o", "t", "i", "n", "g">>, "foundation">>,
    <<<<"I", "f", "c", "P", "i", "l", "e">>, "foundation">>,
    <<<<"I", "f", "c", "C", "o", "v", "e", "r", "i", "n", "g">>, "other">>,
    <<<<"I", "f", "c", "B", "u", "i", "l", "d", "i", "n", "g", "E", "l", "e", "m", "e", "n", "t", "P", "r", "o", "x", "y">>, "other">>
}

\* ElementClassifier.CATEGORY_KEYWORDS, in dict order
CATEGORY_KEYWORDS == <<
    [cat |-> "wall", kws |-> <<<<"w", "a", "l", "l">>, <<"p", "a", "r", "t", "i", "t", "i", "o", "n">>, <<"c", "u", "r", "t", "a", "i", "n">>>>],
    [cat |-> "floor", kws |-> <<<<"f", "l", "o", "o", "r">>, <<"s", "l", "a", "b">>, <<"d", "e", "c", "k">>>>],
    [cat |-> "column", kws |-> <<<<"c", "o", "l", "u", "m", "n">>, <<"p", "o", "s", "t">>, <<"p", "i", "l", "l", "a", "r">>>>],
    [cat |-> "beam", kws |-> <<<<"b", "e", "a", "m">>, <<"g", "i", "r", "d", "e", "r">>, <<"j", "o", "i", "s", "t">>, <<"t", "r", "u", "s", "s">>>>],
    [cat |-> "roof", kws |-> <<<<"r", "o", "o", "f">>, <<"r", "o", "o", "f", "i", "n", "g">>>>],
    [cat |-> "door", kws |-> <<<<"d", "o", "o", "r">>, <<"e", "n", "t", "r", "y">>, <<"g", "a", "t", "e">>>>],
    [cat |-> "window", kws |-> <<<<"w", "i", "n", "d", "o", "w">>, <<"g", "l", "a", "z", "i", "n", "g">>>>],
    [cat |-> "stair", kws |-> <<<<"s", "t", "a", "i", "r">>, <<"s", "t", "e", "p">>>>],
    [cat |-> "railing", kws |-> <<<<"r", "a", "i", "l", "i", "n", "g">>, <<"h", "a", "n", "d", "r", "a", "i", "l">>, <<"g", "u", "a", "r", "d", "r", "a", "i", "l">>, <<"b", "a", "l", "u", "s", "t", "r", "a", "d", "e">>>>],
    [cat |-> "foundation", kws |-> <<<<"f", "o", "u", "n", "d", "a", "t", "i", "o", "n">>, <<"f", "o", "o", "t", "i", "n", "g">>, <<"p", "i", "l", "e">>, <<"p", "i", "e", "r">>>>]
>>

\* ElementClassifier.REVIT_CATEGORY_MAPPING
REVIT_CATEGORY_MAPPING == {
    <<-2000011, "wall">>, <<-2000032, "floor">>, <<-2000038, "slab">>,
    <<-2000100, "column">>, <<-2000012, "beam">>, <<-2000035, "roof">>,
    <<-2000023, "door">>, <<-2000014, "window">>, <<-2000120, "stair">>,
    <<-2000126, "railing">>, <<-2000080, "foundation">>, <<-2000175, "foundation">>
}

\* dict `in` and dict.get for the two mappings
InMap(map, k) == \E e \in map : e[1] = k
MapGet(map, k) == (CHOOSE e \in map : e[1] = k)[2]

\* models.ElementCategory
ElementCategory == {"wall", "floor", "column", "beam", "roof", "door", "window",
                    "stair", "railing", "foundation", "slab", "other"}

\* the keyword loops of _classify_by_name / _classify_by_properties: the
\* first category, in table order, one of whose keywords occurs in the text
KeywordHit(text, i) ==
    \E j \in 1..Len(CATEGORY_KEYWORDS[i].kws) : Contains(text, CATEGORY_KEYWORDS[i].kws[j])
RECURSIVE FirstKeywordFrom(_, _)
FirstKeywordFrom(text, i) ==
    IF i > Len(CATEGORY_KEYWORDS) THEN "other"
    ELSE IF KeywordHit(text, i) THEN CATEGORY_KEYWORDS[i].cat
    ELSE FirstKeywordFrom(text, i + 1)
FirstKeywordCategory(text) == FirstKeywordFrom(text, 1)

\* " ".join(str(v).lower() for v in properties.values() if v); a properties
\* dict is the sequence of its values, each a string
RECURSIVE JoinValues(_)
JoinValues(vals) ==
    IF Len(vals) = 0 THEN <<>>
    ELSE IF Len(vals) = 1 THEN Lower(vals[1])
    ELSE Lower(vals[1]) \o <<" ">> \o JoinValues(Tail(vals))
Truthy(vals) == SelectSeq(vals, LAMBDA v : Len(v) > 0)

\* ElementClassifier._classify_by_properties
ClassifyByProperties(props) == FirstKeywordCategory(JoinValues(Truthy(props)))

\* ElementClassifier._classify_by_name
ClassifyByName(name) ==
    IF Len(name) = 0 THEN "other" ELSE FirstKeywordCategory(Lower(name))

\* f"ifc:{ifc_type}:{family_name}"
IfcCacheKey(t, fam) == <<"i", "f", "c", ":">> \o t \o <<":">> \o OptStr(fam)
\* f"revit:{category_id}:{category_name}:{family_name}"
RevitCacheKey(cid, cname, fam) ==
    <<"r", "e", "v", "i", "t", ":">> \o OptIntStr(cid) \o <<":">> \o OptStr(cname)
        \o <<":">> \o OptStr(fam)

CachePut(c, key, cat) ==
    [k \in (DOMAIN c) \cup {key} |-> IF k = key THEN cat ELSE c[k]]

\* truthiness of an optional dict / optional string argument
GivenProps(props) == props.some /\ Len(props.v) > 0
GivenName(name) == name.some /\ Len(name.v) > 0

\* variant of ClassifyIfcUncached: the family name is tried before the
\* properties
ClassifyIfcUncached_NameFirst(t, props, fam) ==
    LET byProps == ClassifyByProperties(props.v)
        byName == ClassifyByName(fam.v) IN
    IF InMap(IFC_TYPE_MAPPING, t) /\ MapGet(IFC_TYPE_MAPPING, t) # "other"
    THEN MapGet(IFC_TYPE_MAPPING, t)
    ELSE IF GivenName(fam) /\ byName # "other" THEN byName
    ELSE IF GivenProps(props) /\ byProps # "other" THEN byProps
    ELSE "other"

\* ElementClassifier.classify_ifc_element, lines 113-137: the cascade run on
\* a cache miss
ClassifyIfcUncached(t, props, fam) ==
    LET byProps == ClassifyByProperties(props.v)
        byName == ClassifyByName(fam.v) IN
    IF InMap(IFC_TYPE_MAPPING, t) /\ MapGet(IFC_TYPE_MAPPING, t) # "other"
    THEN MapGet(IFC_TYPE_MAPPING, t)
    ELSE IF GivenProps(props) /\ byProps # "other" THEN byProps
    ELSE IF GivenName(fam) /\ byName # "other" THEN byName
    ELSE "other"

\* ElementClassifier.classify_ifc_element on cache c: the category returned,
\* the cache afterwards, and whether line 110 found the key (hit)
ClassifyIfc(c, t, props, fam) ==
    LET key == IfcCacheKey(t, fam) IN
    IF key \in DOMAIN c
    THEN [cat |-> c[key], cache |-> c, hit |-> TRUE]
    ELSE LET cat == ClassifyIfcUncached(t, props, fam) IN
         [cat |-> cat, cache |-> CachePut(c, key, cat), hit |-> FALSE]

\* variant of ClassifyRevitUncached: the properties are tried before the
\* category name, as in the IFC cascade
ClassifyRevitUncached_PropsFirst(cid, cname, props, fam) ==
    LET byCatName == ClassifyByName(cname.v)
        byProps == ClassifyByProperties(props.v)
        byName == ClassifyByName(fam.v) IN
    IF cid.some /\ InMap(REVIT_CATEGORY_MAPPING, cid.v)
    THEN MapGet(REVIT_CATEGORY_MAPPING, cid.v)
    ELSE IF GivenProps(props) /\ byProps # "other" THEN byProps
    ELSE IF GivenName(cname) /\ byCatName # "other" THEN byCatName
    ELSE IF GivenName(fam) /\ byName # "other" THEN byName
    ELSE "other"

\* ElementClassifier.classify_revit_element, lines 163-197
ClassifyRevitUncached(cid, cname, props, fam) ==
    LET byCatName == ClassifyByName(cname.v)
        byProps == ClassifyByProperties(props.v)
        byName == ClassifyByName(fam.v) IN
    IF cid.some /\ InMap(REVIT_CATEGORY_MAPPING, cid.v)
    THEN MapGet(REVIT_CATEGORY_MAPPING, cid.v)
    ELSE IF GivenName(cname) /\ byCatName # "other" THEN byCatName
    ELSE IF GivenProps(props) /\ byProps # "other" THEN byProps
    ELSE IF GivenName(fam) /\ byName # "other" THEN byName
    ELSE "other"

\* variant of ClassifyRevit: the fallback is cached whatever is returned
ClassifyRevit_CachesOther(c, cid, cname, props, fam) ==
    LET key == RevitCacheKey(cid, cname, fam) IN
    IF key \in DOMAIN c
    THEN [cat |-> c[key], cache |-> c, hit |-> TRUE]
    ELSE LET cat == ClassifyRevitUncached(cid, cname, props, fam) IN
         [cat |-> cat, cache |-> CachePut(c, key, "other"), hit |-> FALSE]

\* ElementClassifier.classify_revit_element on cache c
ClassifyRevit(c, cid, cname, props, fam) ==
    LET key == RevitCacheKey(cid, cname, fam) IN
    IF key \in DOMAIN c
    THEN [cat |-> c[key], cache |-> c, hit |-> TRUE]
    ELSE LET cat == ClassifyRevitUncached(cid, cname, props, fam) IN
         [cat |-> cat, cache |-> CachePut(c, key, cat), hit |-> FALSE]

\* ElementClassifier.get_classification_confidence, in tenths
Confidence(etype, cat, props) ==
    LET c1 == IF InMap(IFC_TYPE_MAPPING, etype) /\ MapGet(IFC_TYPE_MAPPING, etype) = cat
              THEN 10 ELSE 0
        c2 == IF c1 < 10 /\ IsIntLiteral(etype)
                 /\ InMap(REVIT_CATEGORY_MAPPING, ParseInt(etype))
                 /\ MapGet(REVIT_CATEGORY_MAPPING, ParseInt(etype)) = cat
              THEN 10 ELSE c1
        c3 == IF GivenProps(props) /\ c2 < 10 /\ ClassifyByProperties(props.v) = cat
              THEN (IF c2 > 7 THEN c2 ELSE 7) ELSE c2
    IN IF c3 = 0 THEN 5 ELSE c3

\* ElementClassifier.get_classification_metadata: method and confidence
Metadata(cat, etype, props) ==
    LET m1 == IF Len(etype) = 0 THEN [method |-> "unknown", confidence |-> 0]
              ELSE IF InMap(IFC_TYPE_MAPPING, etype)
              THEN [method |-> "ifc_type_mapping", confidence |-> 10]
              ELSE IF etype[1] = "-" /\ IsIntLiteral(etype)
                      /\ InMap(REVIT_CATEGORY_MAPPING, ParseInt(etype))
              THEN [method |-> "revit_category_mapping", confidence |-> 10]
              ELSE [method |-> "unknown", confidence |-> 0]
        m2 == IF m1.confidence = 0 /\ GivenProps(props)
                 /\ ClassifyByProperties(props.v) = cat
              THEN [method |-> "property_based", confidence |-> 7] ELSE m1
    IN IF m2.confidence = 0 THEN [method |-> "name_based", confidence |-> 5] ELSE m2

\* -------------------------------------------------------------------- Init
\* the empty job store, no handler running, and the two import-time flags
JobInit ==
    /\ store = [m \in ModelIds |-> NoJob]
    /\ attempts = [m \in ModelIds |-> 0]
    /\ pc = "idle"
    /\ cur = 0
    /\ native = <<>>
    /\ elements = <<>>
    /\ response = NoResponse
    /\ ifcAvail \in BOOLEAN
    /\ oleAvail \in BOOLEAN

Init ==
    /\ JobInit
    /\ cache = <<>>
    /\ lastCall = [file_type |-> "none"]
    /\ lastRes = [code |-> 0]

Jobs == {m \in ModelIds : store[m] # NoJob}
RECURSIVE SumTo(_, _)
SumTo(f, n) == IF n = 0 THEN 0 ELSE f[n] + SumTo(f, n - 1)
Runs == SumTo(attempts, MaxRequests + 1)
Accepted == Cardinality(Jobs) + Runs

Respond(op, code) == response' = [op |-> op, code |-> code]

\* ---------------------------------------------------------------- handlers
\* variant of NewJob: a new record starts in the status uploading
NewJob_Uploading(ft, p) ==
    [file_type |-> ft, file_path |-> p, status |-> "uploading", progress |-> 0,
     error_message |-> NoMsg, elements_processed |-> 0,
     created_at |-> TRUE, completed_at |-> FALSE]

\* the job record upload_bim_model stores (lines 502-514)
NewJob(ft, p) ==
    [file_type |-> ft, file_path |-> p, status |-> "processing", progress |-> 0,
     error_message |-> NoMsg, elements_processed |-> 0,
     created_at |-> TRUE, completed_at |-> FALSE]


\* file_type.lower()
LowerType(t) == IF t = "IFC" THEN "ifc" ELSE IF t = "Revit" THEN "revit" ELSE t
UploadTypes == {"ifc", "revit", "IFC", "dwg"}

\* uuid.uuid4() (line 499) yields an id not in the store; ids are handed out
\* in increasing order.
\* variant of FreshId: the id generator repeats itself
FreshId_Repeats == CHOOSE x \in ModelIds : \A y \in ModelIds : x <= y

FreshId == CHOOSE x \in ModelIds \ Jobs : \A y \in ModelIds \ Jobs : x <= y

\* upload_bim_model: type check, existence check, uuid4, store write, reply.
\* e1 is what path.exists() finds; e2 and e3 are whether the file is still
\* there at the path.stat() of the job record (line 506, before the store is
\* written) and at the path.stat() of the reply (line 524, after it).
\* variant of UploadOn: the existence check comes before the type check
UploadOn_ExistenceFirst(ft, p, e1, e2, e3) ==
    IF ~e1
    THEN /\ Respond("upload", 404)
         /\ UNCHANGED store
    ELSE IF LowerType(ft) \notin FileTypes
    THEN /\ Respond("upload", 400)
         /\ UNCHANGED store
    ELSE IF ~e2
    THEN /\ Respond("upload", 500)
         /\ UNCHANGED store
    ELSE /\ store' = [store EXCEPT ![FreshId] = NewJob(LowerType(ft), p)]
         /\ Respond("upload", IF e3 THEN 200 ELSE 500)

\* the body of upload_bim_model (lines 482-538) on given observations
UploadOn(ft, p, e1, e2, e3) ==
    IF LowerType(ft) \notin FileTypes
    THEN /\ Respond("upload", 400)
         /\ UNCHANGED store
    ELSE IF ~e1
    THEN /\ Respond("upload", 404)
         /\ UNCHANGED store
    ELSE IF ~e2
    THEN /\ Respond("upload", 500)
         /\ UNCHANGED store
    ELSE /\ store' = [store EXCEPT ![FreshId] = NewJob(LowerType(ft), p)]
         /\ Respond("upload", IF e3 THEN 200 ELSE 500)

Upload(ft, p) ==
    /\ pc = "idle"
    /\ Accepted < MaxRequests
    /\ \E e1 \in BOOLEAN, e2 \in BOOLEAN, e3 \in BOOLEAN : UploadOn(ft, p, e1, e2, e3)
    /\ UNCHANGED <<attempts, pc, cur, native, elements, envVars, clsVars>>

\* variant of GetStatus: an unknown id is answered like a known one
GetStatus_AnswersUnknown(m) ==
    /\ pc = "idle"
    /\ Respond("status", 200)
    /\ UNCHANGED <<store, attempts, pc, cur, native, elements, envVars, clsVars>>

\* get_processing_status
GetStatus(m) ==
    /\ pc = "idle"
    /\ IF store[m] = NoJob
       THEN Respond("status", 404)
       ELSE Respond("status", 200)
    /\ UNCHANGED <<store, attempts, pc, cur, native, elements, envVars, clsVars>>

\* ------------------------------------------------- process_bim_model steps
\* variant of SetJob: the write goes to every record of the store
SetJob_EveryJob(f, v) ==
    store' = [m \in ModelIds |->
                 IF store[m] = NoJob THEN NoJob ELSE [store[m] EXCEPT ![f] = v]]

\* job[f] = v
SetJob(f, v) == store' = [store EXCEPT ![cur][f] = v]

\* the handler returns or raises: its locals go out of scope
Return(code) ==
    /\ Respond("process", code)
    /\ pc' = "idle"
    /\ cur' = 0
    /\ native' = <<>>
    /\ elements' = <<>>

\* variant of FileErrorHandler: the handler also resets the progress
FileErrorHandler_ResetsProgress(msg) ==
    /\ store' = [store EXCEPT ![cur].status = "error", ![cur].error_message = msg,
                              ![cur].progress = 0]
    /\ Return(422)

\* except (IFCFileError, RevitFileError): main.py 656-664
FileErrorHandler(msg) ==
    /\ store' = [store EXCEPT ![cur].status = "error", ![cur].error_message = msg]
    /\ Return(422)

\* variant of GenericErrorHandler: the fault is answered but not recorded
GenericErrorHandler_NotRecorded(msg) ==
    /\ UNCHANGED store
    /\ Return(500)

\* except Exception: main.py 665-673
GenericErrorHandler(msg) ==
    /\ store' = [store EXCEPT ![cur].status = "error", ![cur].error_message = msg]
    /\ Return(500)

\* variant of ProcessStart: a failed job resumes after its last checkpoint
ProcessStart_Resumes(m) ==
    /\ pc = "idle"
    /\ IF store[m] = NoJob
       THEN /\ Respond("process", 404)
            /\ UNCHANGED <<store, attempts, pc, cur>>
       ELSE /\ Accepted < MaxRequests
            /\ store' = [store EXCEPT ![m].status = "processing"]
            /\ attempts' = [attempts EXCEPT ![m] = @ + 1]
            /\ pc' = IF store[m].status = "error" /\ store[m].progress = 30
                     THEN "p610" ELSE "p583"
            /\ cur' = m
            /\ response' = NoResponse
    /\ UNCHANGED <<native, elements, envVars, clsVars>>

\* lines 569-582: lookup, 404 for an unknown id, else status := processing
ProcessStart(m) ==
    /\ pc = "idle"
    /\ IF store[m] = NoJob
       THEN /\ Respond("process", 404)
            /\ UNCHANGED <<store, attempts, pc, cur>>
       ELSE /\ Accepted < MaxRequests
            /\ store' = [store EXCEPT ![m].status = "processing"]
            /\ attempts' = [attempts EXCEPT ![m] = @ + 1]
            /\ pc' = "p583"
            /\ cur' = m
            /\ response' = NoResponse
    /\ UNCHANGED <<native, elements, envVars, clsVars>>

\* line 583
P583 ==
    /\ pc = "p583"
    /\ SetJob("progress", 10)
    /\ pc' = "p586"
    /\ UNCHANGED <<attempts, cur, native, elements, response, envVars, clsVars>>

\* variant of P586: only the IFC processor is selected, every other type is
\* turned down as unsupported
P586_OnlyIfc ==
    /\ pc = "p586"
    /\ IF store[cur].file_type = "ifc"
       THEN /\ pc' = "p597"
            /\ UNCHANGED <<cur, native, elements, response>>
       ELSE Return(400)
    /\ UNCHANGED <<store, attempts, envVars, clsVars>>

\* lines 586-594: select the processor
P586 ==
    /\ pc = "p586"
    /\ IF store[cur].file_type \in FileTypes
       THEN /\ pc' = "p597"
            /\ UNCHANGED <<cur, native, elements, response>>
       ELSE Return(400)
    /\ UNCHANGED <<store, attempts, envVars, clsVars>>

\* variant of P597: validation starts without a checkpoint being written
P597_NoCheckpoint ==
    /\ pc = "p597"
    /\ pc' = "p598"
    /\ UNCHANGED <<store, attempts, cur, native, elements, response, envVars, clsVars>>

\* line 597
P597 ==
    /\ pc = "p597"
    /\ SetJob("progress", 20)
    /\ pc' = "p598"
    /\ UNCHANGED <<attempts, cur, native, elements, response, envVars, clsVars>>

\* variant of P598: a failed validation is answered without the error status
\* being written
P598_NoErrorStatus ==
    /\ pc = "p598"
    /\ \E kind \in FileKinds :
          LET r == ValidateFile(store[cur].file_type, store[cur].file_path, kind) IN
          IF r.ok
          THEN /\ pc' = "p608"
               /\ UNCHANGED <<store, cur, native, elements, response>>
          ELSE /\ UNCHANGED store
               /\ Return(400)
    /\ UNCHANGED <<attempts, envVars, clsVars>>

\* lines 598-605: processor.validate_file
P598 ==
    /\ pc = "p598"
    /\ \E kind \in FileKinds :
          LET r == ValidateFile(store[cur].file_type, store[cur].file_path, kind) IN
          IF r.ok
          THEN /\ pc' = "p608"
               /\ UNCHANGED <<store, cur, native, elements, response>>
          ELSE /\ store' = [store EXCEPT ![cur].status = "error",
                                         ![cur].error_message = r.msg]
               /\ Return(400)
    /\ UNCHANGED <<attempts, envVars, clsVars>>

\* variant of P608: a checkpoint below the one already recorded
P608_LowerCheckpoint ==
    /\ pc = "p608"
    /\ SetJob("progress", 15)
    /\ pc' = "p610"
    /\ UNCHANGED <<attempts, cur, native, elements, response, envVars, clsVars>>

\* line 608
P608 ==
    /\ pc = "p608"
    /\ SetJob("progress", 30)
    /\ pc' = "p610"
    /\ UNCHANGED <<attempts, cur, native, elements, response, envVars, clsVars>>

\* line 610, first half of extract_elements: the capability check and the
\* processor's own validate_file (ifc 157-165, revit 138-141)
P610 ==
    /\ pc = "p610"
    /\ \E kind \in FileKinds :
          LET r == ExtractPrecheck(store[cur].file_type, store[cur].file_path, kind) IN
          IF ~r.ok
          THEN FileErrorHandler(r.msg)
          ELSE /\ pc' = "x_open"
               /\ UNCHANGED <<store, cur, native, elements, response>>
    /\ UNCHANGED <<attempts, envVars, clsVars>>

\* extract_elements past its validation: open the file and enumerate the
\* building elements (ifc 171-176), or read the file metadata and build the
\* sample elements (revit 145-166).  Any exception in this block is
\* re-raised as the processor's file error.
XOpen ==
    /\ pc = "x_open"
    /\ \E kind \in FileKinds, nat \in NativeLists :
          IF store[cur].file_type = "ifc"
          THEN IF kind # "ifc"
               THEN FileErrorHandler("Error processing IFC file")
               ELSE /\ native' = nat
                    /\ pc' = "x_loop"
                    /\ UNCHANGED <<store, cur, elements, response>>
          ELSE IF kind = "missing"
               THEN FileErrorHandler("Error processing Revit file")
               ELSE /\ nat = <<>>
                    /\ native' = [i \in 1..SampleCount |-> "ok"]
                    /\ elements' = SampleElements
                    /\ pc' = "p614"
                    /\ UNCHANGED <<store, cur, response>>
    /\ UNCHANGED <<attempts, envVars, clsVars>>

\* variant of XLoop: an exception in one element aborts the extraction
XLoop_AbortsOnException ==
    /\ pc = "x_loop"
    /\ IF \E i \in 1..Len(native) : native[i] = "exc"
       THEN FileErrorHandler("Error processing IFC file")
       ELSE /\ elements' = ProcessElements(native, 1)
            /\ pc' = "p614"
            /\ UNCHANGED <<store, cur, native, response>>
    /\ UNCHANGED <<attempts, envVars, clsVars>>

\* the loop over building_elements (ifc 179-188) and the return
XLoop ==
    /\ pc = "x_loop"
    /\ elements' = ProcessElements(native, 1)
    /\ pc' = "p614"
    /\ UNCHANGED <<store, attempts, cur, native, response, envVars, clsVars>>

\* line 614
P614 ==
    /\ pc = "p614"
    /\ SetJob("progress", 80)
    /\ pc' = "p615"
    /\ UNCHANGED <<attempts, cur, native, elements, response, envVars, clsVars>>

\* variant of P615: counts the enumerated elements instead of the returned
P615_CountsEnumerated ==
    /\ pc = "p615"
    /\ SetJob("elements_processed", Len(native))
    /\ pc' = "p618"
    /\ UNCHANGED <<attempts, cur, native, elements, response, envVars, clsVars>>

\* line 615
P615 ==
    /\ pc = "p615"
    /\ SetJob("elements_processed", Len(elements))
    /\ pc' = "p618"
    /\ UNCHANGED <<attempts, cur, native, elements, response, envVars, clsVars>>

\* line 618
P618 ==
    /\ pc = "p618"
    /\ SetJob("progress", 90)
    /\ pc' = "p619"
    /\ UNCHANGED <<attempts, cur, native, elements, response, envVars, clsVars>>

\* lines 619-620: get_project_info, get_software_version.  The IFC pair
\* catches everything; the Revit pair calls _extract_file_metadata, whose
\* Path.stat() is outside its try block and raises for a missing file.
P619 ==
    /\ pc = "p619"
    /\ \E e1 \in BOOLEAN, e2 \in BOOLEAN :
          IF store[cur].file_type = "revit" /\ (~e1 \/ ~e2)
          THEN GenericErrorHandler("No such file or directory")
          ELSE /\ pc' = "p623"
               /\ UNCHANGED <<store, cur, native, elements, response>>
    /\ UNCHANGED <<attempts, envVars, clsVars>>

\* line 623
P623 ==
    /\ pc = "p623"
    /\ SetJob("status", "ready")
    /\ pc' = "p624"
    /\ UNCHANGED <<attempts, cur, native, elements, response, envVars, clsVars>>

\* line 624
P624 ==
    /\ pc = "p624"
    /\ SetJob("progress", 100)
    /\ pc' = "p625"
    /\ UNCHANGED <<attempts, cur, native, elements, response, envVars, clsVars>>

\* lines 625-652: completed_at, then the success response
P625 ==
    /\ pc = "p625"
    /\ SetJob("completed_at", TRUE)
    /\ Return(200)
    /\ UNCHANGED <<attempts, envVars, clsVars>>


\* ------------------------------------------------------ classifier inputs
T_IfcWall == <<"I", "f", "c", "W", "a", "l", "l">>
T_Proxy == <<"I", "f", "c", "B", "u", "i", "l", "d", "i", "n", "g", "E", "l", "e", "m", "e", "n", "t", "P", "r", "o", "x", "y">>
T_Unknown == <<"I", "f", "c", "U", "n", "k", "n", "o", "w", "n", "T", "y", "p", "e">>
N_BasicWall == <<"B", "a", "s", "i", "c", " ", "W", "a", "l", "l">>
N_RoofBeam == <<"R", "o", "o", "f", " ", "B", "e", "a", "m">>
N_Doors == <<"D", "o", "o", "r", "s">>
V_beam == <<"b", "e", "a", "m">>
V_ExtWall == <<"E", "x", "t", "e", "r", "i", "o", "r", " ", "W", "A", "L", "L">>

IfcTypeInputs == {T_IfcWall, T_Proxy, T_Unknown}
PropsInputs == {None, Some(<<>>), Some(<<V_beam>>), Some(<<V_ExtWall>>)}
FamilyInputs == {None, Some(N_BasicWall), Some(N_RoofBeam)}
CategoryIdInputs == {[some |-> FALSE, v |-> 0], [some |-> TRUE, v |-> -2000011],
                     [some |-> TRUE, v |-> 12345]}
CategoryNameInputs == {None, Some(N_Doors)}
NoId == [some |-> FALSE, v |-> 0]

\* main.ClassificationRequest
IfcRequests ==
    {[element_type |-> t, file_type |-> "ifc", category_id |-> NoId,
      category_name |-> None, properties |-> pr, family_name |-> fam] :
        t \in IfcTypeInputs, pr \in PropsInputs, fam \in FamilyInputs}
RevitRequests ==
    {[element_type |-> t, file_type |-> "revit", category_id |-> cid,
      category_name |-> cn, properties |-> pr, family_name |-> fam] :
        t \in {T_Unknown, T_IfcWall}, cid \in CategoryIdInputs, cn \in CategoryNameInputs,
        pr \in {None, Some(<<V_beam>>)}, fam \in FamilyInputs}
BadRequests ==
    {[element_type |-> T_IfcWall, file_type |-> "dwg", category_id |-> NoId,
      category_name |-> None, properties |-> None, family_name |-> None]}
Requests == IfcRequests \cup RevitRequests \cup BadRequests

\* the classify call a request leads to (main.py 334-346)
ClassifyRequest(c, req) ==
    IF LowerType(req.file_type) = "ifc"
    THEN ClassifyIfc(c, req.element_type, req.properties, req.family_name)
    ELSE ClassifyRevit(c, req.category_id, req.category_name, req.properties,
                       req.family_name)
CacheKey(req) ==
    IF LowerType(req.file_type) = "ifc"
    THEN IfcCacheKey(req.element_type, req.family_name)
    ELSE RevitCacheKey(req.category_id, req.category_name, req.family_name)

\* element_type_for_metadata (main.py 355-358)
MetadataType(req) ==
    IF LowerType(req.file_type) = "revit" /\ req.category_id.some
    THEN IntStr(req.category_id.v) ELSE req.element_type

\* main.classify_element.  lastCall and lastRes record the request and its
\* reply; `hit` tells whether the cache answered, `repeated` whether the
\* request is the same as the one before it.
ClassifyElement(req) ==
    /\ pc = "idle"
    /\ IF LowerType(req.file_type) \notin FileTypes
       THEN /\ lastRes' = [code |-> 400]
            /\ UNCHANGED cache
       ELSE /\ CacheKey(req) \in DOMAIN cache \/ Cardinality(DOMAIN cache) < MaxCache
            /\ LET r == ClassifyRequest(cache, req)
                   md == Metadata(r.cat, MetadataType(req), req.properties) IN
               /\ cache' = r.cache
               /\ lastRes' = [code |-> 200, category |-> r.cat, hit |-> r.hit,
                              repeated |-> (req = lastCall),
                              confidence |-> Confidence(MetadataType(req), r.cat,
                                                        req.properties),
                              method |-> md.method, md_confidence |-> md.confidence]
    /\ lastCall' = req
    /\ UNCHANGED <<jobVars, envVars>>

\* ElementClassifier.clear_cache
ClearCache ==
    /\ pc = "idle"
    /\ cache' = <<>>
    /\ lastCall' = [file_type |-> "clear"]
    /\ lastRes' = [code |-> 0]
    /\ UNCHANGED <<jobVars, envVars>>

ClsInit == Init /\ ifcAvail /\ oleAvail
ClsNext ==
    \/ \E req \in Requests : ClassifyElement(req)
    \/ ClearCache
ClsSpec == ClsInit /\ [][ClsNext]_vars

\* ------------------------------------------- calls of the helper functions
\* The helper methods applied directly to bounded inputs; lastCall records
\* the call and lastRes what it returned.
W_Roof == <<"R", "o", "o", "f">>
W_BEAM == <<"B", "E", "A", "M">>
W_Aggregate == <<"A", "g", "g", "r", "e", "g", "a", "t", "e">>
W_Footing == <<"F", "o", "o", "t", "i", "n", "g">>
W_Window == <<"w", "i", "n", "d", "o", "w">>
W_Xyz == <<"X", "y", "z">>
Words == {W_Roof, W_BEAM, W_Aggregate, W_Footing, W_Window, W_Xyz}
WordLists == UNION {[1..n -> Words] : n \in 0..MaxWords}

\* a name made of words separated by blanks
RECURSIVE JoinWords(_)
JoinWords(ws) ==
    IF Len(ws) = 0 THEN <<>>
    ELSE IF Len(ws) = 1 THEN ws[1]
    ELSE ws[1] \o <<" ">> \o JoinWords(Tail(ws))

\* ---------------------------------------------------------- bounding box
\* coordinates; 0.0 is also the value the empty case returns
Coords == {-1, 0, 2}
Vertex == [1..3 -> Coords]
VertexLists == UNION {[1..n -> Vertex] : n \in 0..MaxVerts}

\* variant of Smaller: the running minimum is never replaced
Smaller_KeepsFirst(a, b) == a

\* one comparison of min(): a later item replaces the running minimum only
\* when it is strictly smaller
Smaller(a, b) == IF b < a THEN b ELSE a
\* one comparison of max()
Larger(a, b) == IF b > a THEN b ELSE a

\* min(xs), max(xs) of a non-empty list (lines 460-461)
RECURSIVE MinOf(_)
MinOf(xs) ==
    IF Len(xs) = 1 THEN xs[1]
    ELSE Smaller(MinOf(SubSeq(xs, 1, Len(xs) - 1)), xs[Len(xs)])
RECURSIVE MaxOf(_)
MaxOf(xs) ==
    IF Len(xs) = 1 THEN xs[1]
    ELSE Larger(MaxOf(SubSeq(xs, 1, Len(xs) - 1)), xs[Len(xs)])

\* [v[i] for v in vertices] (lines 455-457)
Column(vs, i) == [k \in 1..Len(vs) |-> vs[k][i]]

\* verts_array.min(axis=0), verts_array.max(axis=0): a reduction over the
\* rows of the array, componentwise (lines 445-447)
RECURSIVE AxisMin(_)
AxisMin(vs) ==
    IF Len(vs) = 1 THEN vs[1]
    ELSE LET m == AxisMin(Tail(vs)) IN [i \in 1..3 |-> Smaller(vs[1][i], m[i])]
RECURSIVE AxisMax(_)
AxisMax(vs) ==
    IF Len(vs) = 1 THEN vs[1]
    ELSE LET m == AxisMax(Tail(vs)) IN [i \in 1..3 |-> Larger(vs[1][i], m[i])]

\* IFCProcessor._calculate_bounding_box; numpy is NUMPY_AVAILABLE
CalculateBoundingBox(vs, numpy) ==
    IF vs = <<>>
    THEN [min |-> <<0, 0, 0>>, max |-> <<0, 0, 0>>]
    ELSE IF numpy
    THEN [min |-> AxisMin(vs), max |-> AxisMax(vs)]
    ELSE [min |-> [i \in 1..3 |-> MinOf(Column(vs, i))],
          max |-> [i \in 1..3 |-> MaxOf(Column(vs, i))]]

\* the calls FnInit draws from: lastCall holds the call, lastRes its result
\* once the function has been applied
NotReturned == [code |-> 0]
KeywordCalls ==
    {[file_type |-> "none", op |-> o, words |-> ws] :
        o \in {"by_name", "by_properties"}, ws \in WordLists}
ValidateCalls ==
    {[file_type |-> "none", op |-> "validate", format |-> ft, path |-> p, kind |-> k] :
        ft \in FileTypes, p \in Paths, k \in FileKinds}
ExtractCalls ==
    {[file_type |-> "none", op |-> "extract", format |-> ft, path |-> p, kind |-> k,
      nat |-> nat] :
        ft \in FileTypes, p \in Paths, k \in FileKinds, nat \in NativeLists}
BoundingBoxCalls ==
    {[file_type |-> "none", op |-> "bounding_box", vertices |-> vs, numpy |-> np] :
        vs \in VertexLists, np \in BOOLEAN}
FnCalls == KeywordCalls \cup ValidateCalls \cup ExtractCalls \cup BoundingBoxCalls
Pending(o) == pc = "idle" /\ lastRes = NotReturned /\ lastCall.op = o

\* ElementClassifier._classify_by_name(name)
ClassifyByNameCall ==
    /\ Pending("by_name")
    /\ lastRes' = [code |-> 200, category |-> ClassifyByName(JoinWords(lastCall.words))]
    /\ UNCHANGED <<jobVars, envVars, cache, lastCall>>

\* ElementClassifier._classify_by_properties(properties)
ClassifyByPropertiesCall ==
    /\ Pending("by_properties")
    /\ lastRes' = [code |-> 200, category |-> ClassifyByProperties(lastCall.words)]
    /\ UNCHANGED <<jobVars, envVars, cache, lastCall>>

\* processor.validate_file(file_path) of the processor for the format
ValidateFileCall ==
    /\ Pending("validate")
    /\ LET r == ValidateFile(lastCall.format, lastCall.path, lastCall.kind) IN
          lastRes' = [code |-> 200, ok |-> r.ok, msg |-> r.msg]
    /\ UNCHANGED <<jobVars, envVars, cache, lastCall>>

\* processor.extract_elements(file_path, model_id)
ExtractElementsCall ==
    /\ Pending("extract")
    /\ LET r == ExtractElements(lastCall.format, lastCall.path, lastCall.kind,
                                lastCall.nat) IN
          lastRes' = [code |-> 200, raised |-> r.raised, error |-> r.error,
                      msg |-> r.msg, elements |-> r.elements]
    /\ UNCHANGED <<jobVars, envVars, cache, lastCall>>

\* processor._calculate_bounding_box(vertices)
CalculateBoundingBoxCall ==
    /\ Pending("bounding_box")
    /\ LET b == CalculateBoundingBox(lastCall.vertices, lastCall.numpy) IN
          lastRes' = [code |-> 200, min |-> b.min, max |-> b.max]
    /\ UNCHANGED <<jobVars, envVars, cache, lastCall>>

FnInit ==
    /\ JobInit
    /\ cache = <<>>
    /\ lastCall \in FnCalls
    /\ lastRes = NotReturned
FnNext ==
    \/ ClassifyByNameCall
    \/ ClassifyByPropertiesCall
    \/ ValidateFileCall
    \/ ExtractElementsCall
    \/ CalculateBoundingBoxCall
FnSpec == FnInit /\ [][FnNext]_vars

Next ==
    \/ \E ft \in UploadTypes, p \in Paths : Upload(ft, p)
    \/ \E m \in ModelIds : GetStatus(m)
    \/ \E m \in ModelIds : ProcessStart(m)
    \/ P583 \/ P586 \/ P597 \/ P598 \/ P608 \/ P610 \/ XOpen \/ XLoop
    \/ P614 \/ P615 \/ P618 \/ P619 \/ P623 \/ P624 \/ P625

Spec == Init /\ [][Next]_vars

\* process_bim_model has no await between its first and its last statement:
\* once invoked, its next statement is always executed
ProcessStep ==
    \/ P583 \/ P586 \/ P597 \/ P598 \/ P608 \/ P610 \/ XOpen \/ XLoop
    \/ P614 \/ P615 \/ P618 \/ P619 \/ P623 \/ P624 \/ P625
LiveSpec == Init /\ [][Next]_vars /\ WF_vars(ProcessStep)

\* ================================================================= claims
ProcessReturns == pc # "idle" /\ pc' = "idle"

\* C1: whenever a process invocation on an uploaded job completes without a
\* fault (response 200), the job record it leaves has status ready, progress
\* 100, completed_at set, and elements_processed equal to the number of
\* elements extract_elements returned to this invocation.
C1_SuccessEndsReady ==
    [][(ProcessReturns /\ response'.code = 200) =>
          /\ store'[cur].status = "ready"
          /\ store'[cur].progress = 100
          /\ store'[cur].completed_at
          /\ store'[cur].elements_processed = Len(elements)]_vars

\* a run over two native elements, one of them skipped, has completed
C1_Witness ==
    /\ pc = "idle"
    /\ response = [op |-> "process", code |-> 200]
    /\ \E m \in ModelIds :
          /\ store[m] # NoJob
          /\ store[m].status = "ready"
          /\ store[m].elements_processed = 1

\* C2: every job's progress is within 0..100 in every reachable state, and
\* from its creation by upload until it first reaches ready or error (its
\* first process invocation included) no write lowers its progress.
ProgressInRange ==
    \A m \in ModelIds : store[m] # NoJob => store[m].progress \in 0..100
FirstRunNonDecreasing ==
    \A m \in ModelIds :
        (store[m] # NoJob /\ attempts'[m] <= 1) =>
            store'[m].progress >= store[m].progress
C2_ProgressMonotone == []ProgressInRange /\ [][FirstRunNonDecreasing]_vars

\* a job has gone through all checkpoints of its first invocation
C2_Witness ==
    \E m \in ModelIds :
        /\ store[m] # NoJob
        /\ attempts[m] = 1
        /\ store[m].progress = 100

\* C3: when extract_elements raises IFCFileError or RevitFileError, the
\* invocation leaves the job with status error, an error message, and the
\* progress it had when the extractor was called: the checkpoint 30, which is
\* below 100 and is not reset to 0.
ExtractorRaises == pc \in {"p610", "x_open", "x_loop"} /\ pc' = "idle"
C3_FileErrorFreezesProgress ==
    [][ExtractorRaises =>
          /\ store'[cur].status = "error"
          /\ store'[cur].error_message # NoMsg
          /\ store'[cur].progress = store[cur].progress
          /\ store'[cur].progress < 100
          /\ store'[cur].progress # 0
          /\ response' = [op |-> "process", code |-> 422]]_vars

\* the extractor failed while opening a file that had passed validation
C3_Witness ==
    /\ pc = "idle"
    /\ response = [op |-> "process", code |-> 422]
    /\ \E m \in ModelIds :
          /\ store[m] # NoJob
          /\ store[m].status = "error"
          /\ store[m].error_message = "Error processing IFC file"
          /\ store[m].progress = 30

\* C4 (as the code has it): invoking process on a job that is ready or error
\* puts it back into status processing and starts at the top of the pipeline
\* with empty locals, whatever checkpoint the job had reached; the run then
\* records 10 (never 0), validates again and passes every checkpoint in order.
Terminal == {"ready", "error"}
CheckpointAt(p) ==
    CASE p \in {"p586", "p597"} -> 10
      [] p \in {"p598", "p608"} -> 20
      [] p \in {"p610", "x_open", "x_loop", "p614"} -> 30
      [] p \in {"p615", "p618"} -> 80
      [] p \in {"p619", "p623", "p624"} -> 90
      [] p = "p625" -> 100
RetryEntry(m) == pc = "idle" /\ cur' = m /\ store[m].status \in Terminal
RetryRunsFromTop ==
    (pc \notin {"idle", "p583"} /\ attempts[cur] >= 2) =>
        /\ store[cur].status = (IF pc \in {"p624", "p625"} THEN "ready" ELSE "processing")
        /\ store[cur].progress = CheckpointAt(pc)
        /\ store[cur].progress # 0
C4_RetryRestartsAtTen ==
    /\ []RetryRunsFromTop
    /\ [][\A m \in ModelIds :
            RetryEntry(m) => /\ pc' = "p583"
                             /\ store'[m].status = "processing"
                             /\ elements' = <<>>
                             /\ native' = <<>>]_vars

\* C4 as stated: once a re-invocation has re-entered processing, the job has
\* status processing and progress 0.
C4_RetryRestartsAtZero ==
    (pc = "p586" /\ attempts[cur] >= 2) =>
        (store[cur].status = "processing" /\ store[cur].progress = 0)

\* a job that had completed is being validated again by a second invocation
C4_Witness ==
    /\ pc = "p598"
    /\ attempts[cur] = 2
    /\ store[cur].completed_at
    /\ store[cur].elements_processed > 0
    /\ store[cur].progress = 20

\* C5: a successful upload adds exactly one job, under an id that was not in
\* the store, with status processing, progress 0, no error message and
\* elements_processed 0, and changes no existing record; a record that
\* enters the store is never in a queued state.
IsFreshRecord(j) ==
    /\ j.status = "processing"
    /\ j.progress = 0
    /\ j.error_message = NoMsg
    /\ j.elements_processed = 0
UploadSucceeds == pc = "idle" /\ response' = [op |-> "upload", code |-> 200]
AddsOneJob ==
    \E m \in ModelIds :
        /\ store[m] = NoJob
        /\ store'[m] # NoJob
        /\ IsFreshRecord(store'[m])
        /\ \A n \in ModelIds \ {m} : store'[n] = store[n]
EntersAsProcessing ==
    \A m \in ModelIds :
        (store[m] = NoJob /\ store'[m] # NoJob) =>
            (IsFreshRecord(store'[m]) /\ store'[m].status # "queued")
C5_UploadAddsOneJob ==
    [][(UploadSucceeds => AddsOneJob) /\ EntersAsProcessing]_vars

\* a second upload has succeeded beside a job that is already ready
C5_Witness ==
    /\ response = [op |-> "upload", code |-> 200]
    /\ Cardinality(Jobs) = 2
    /\ \E m \in ModelIds : store[m].status = "ready"
    /\ \E m \in ModelIds : store[m] # NoJob /\ IsFreshRecord(store[m])

\* C6: a status lookup or a process invocation naming an id that is not in
\* the store answers 404 (not 400, 422 or 500), starts nothing, and leaves
\* the store as it was: no job is created and no record changes.
C6_UnknownIdNotFound ==
    [][\A m \in ModelIds :
          (store[m] = NoJob /\ (GetStatus(m) \/ ProcessStart(m))) =>
              /\ response'.code = 404
              /\ response'.code \notin {400, 422, 500}
              /\ store' = store
              /\ pc' = "idle"]_vars

\* process was invoked for an unknown id while the store holds a job
C6_Witness ==
    /\ response = [op |-> "process", code |-> 404]
    /\ Jobs # {}
    /\ pc = "idle"

\* C7: for every list of N enumerated elements of which k fail (no geometry
\* or an exception), the extraction loop does not raise and returns exactly
\* the other N-k elements in enumeration order, and the invocation can then
\* only end with the job ready and elements_processed = N-k.
OkIndices(nat) == {i \in 1..Len(nat) : nat[i] = "ok"}
FailedCount(nat) == Cardinality({i \in 1..Len(nat) : nat[i] # "ok"})
IsExtractionOf(els, nat) ==
    /\ Len(els) = Len(nat) - FailedCount(nat)
    /\ \A i \in 1..Len(els) : els[i] \in OkIndices(nat)
    /\ \A i \in 1..Len(els) : \A j \in 1..Len(els) : i < j => els[i] < els[j]
AfterLoop == {"p614", "p615", "p618", "p619", "p623", "p624", "p625"}
ExtractionExact == pc \in AfterLoop => IsExtractionOf(elements, native)
LoopNeverRaises == pc = "x_loop" => pc' = "p614"
ExtractedJobEndsReady ==
    (pc \in AfterLoop /\ store[cur].file_type = "ifc" /\ pc' = "idle") =>
        /\ store'[cur].status = "ready"
        /\ store'[cur].elements_processed = Len(native) - FailedCount(native)
        /\ response' = [op |-> "process", code |-> 200]
C7_FailedElementsSkipped ==
    /\ []ExtractionExact
    /\ [][LoopNeverRaises /\ ExtractedJobEndsReady]_vars

\* of two enumerated elements the first raised; the job is ready with one
C7_Witness ==
    /\ pc = "p625"
    /\ native = <<"exc", "ok">>
    /\ elements = <<2>>
    /\ store[cur].status = "ready"
    /\ store[cur].elements_processed = 1

\* C8: the category a classify call returns on the current cache is the one
\* it returns on a cleared cache, for every request and after any sequence
\* of earlier calls.
C8_ClearNeverChangesResult ==
    \A req \in IfcRequests \cup RevitRequests :
        ClassifyRequest(cache, req).cat = ClassifyRequest(<<>>, req).cat

\* C9: a classify request repeated right after itself gets the same category
\* and the same confidence, for IFC and Revit requests and whatever the cache
\* held before the first of the two.
C9_RepeatGivesSameResult ==
    [][(lastCall' = lastCall /\ lastRes.code = 200 /\ lastRes'.code = 200) =>
          /\ lastRes'.category = lastRes.category
          /\ lastRes'.confidence = lastRes.confidence]_vars

\* a Revit request classified by its category name has been repeated
C9_Witness ==
    /\ lastRes.code = 200
    /\ lastRes.repeated
    /\ lastRes.hit
    /\ lastCall.file_type = "revit"
    /\ lastRes.category = "door"

\* C10: classify_ifc_element on an empty cache returns the exact-type
\* category when the type is mapped to one other than other, whatever the
\* properties and family name; else the property-keyword category when
\* properties are given and match; else the name-keyword category when a
\* family name is given and matches; else other.
IfcCascade(req) ==
    LET typeCat == IF InMap(IFC_TYPE_MAPPING, req.element_type)
                   THEN MapGet(IFC_TYPE_MAPPING, req.element_type) ELSE "other"
        propCat == IF req.properties.some
                   THEN ClassifyByProperties(req.properties.v) ELSE "other"
        nameCat == IF req.family_name.some
                   THEN ClassifyByName(req.family_name.v) ELSE "other"
    IN  IF typeCat # "other" THEN typeCat
        ELSE IF propCat # "other" THEN propCat
        ELSE IF nameCat # "other" THEN nameCat
        ELSE "other"
C10_IfcCascadeOrder ==
    [][(cache = <<>> /\ lastCall'.file_type = "ifc" /\ lastRes'.code = 200) =>
          lastRes'.category = IfcCascade(lastCall')]_vars

\* a catch-all type with beam properties and a wall family name gave beam
C10_Witness ==
    /\ lastCall.file_type = "ifc"
    /\ lastCall.element_type = T_Proxy
    /\ lastCall.properties = Some(<<V_beam>>)
    /\ lastCall.family_name = Some(N_BasicWall)
    /\ lastRes.code = 200
    /\ ~lastRes.hit
    /\ lastRes.category = "beam"

\* C11: classify_revit_element on a cache that does not hold the call's key
\* (an empty cache in particular) returns the first result other than other
\* among: the category-id table, the category-name keywords, the property
\* keywords, the family-name keywords; so the category name wins over
\* differing properties and the properties win over a differing family name;
\* with no hit it returns other.
RevitCascade(req) ==
    LET idCat == IF req.category_id.some /\ InMap(REVIT_CATEGORY_MAPPING, req.category_id.v)
                 THEN MapGet(REVIT_CATEGORY_MAPPING, req.category_id.v) ELSE "other"
        cnameCat == IF req.category_name.some
                    THEN ClassifyByName(req.category_name.v) ELSE "other"
        propCat == IF req.properties.some
                   THEN ClassifyByProperties(req.properties.v) ELSE "other"
        nameCat == IF req.family_name.some
                   THEN ClassifyByName(req.family_name.v) ELSE "other"
    IN  IF idCat # "other" THEN idCat
        ELSE IF cnameCat # "other" THEN cnameCat
        ELSE IF propCat # "other" THEN propCat
        ELSE IF nameCat # "other" THEN nameCat
        ELSE "other"
C11_RevitCascadeOrder ==
    (lastRes.code = 200 /\ ~lastRes.hit /\ lastCall.file_type = "revit") =>
        lastRes.category = RevitCascade(lastCall)

\* an unmapped id, category name Doors, beam properties and a wall family
\* name gave door
C11_Witness ==
    /\ lastRes.code = 200
    /\ ~lastRes.hit
    /\ lastCall.file_type = "revit"
    /\ lastCall.category_id = [some |-> TRUE, v |-> 12345]
    /\ lastCall.category_name = Some(N_Doors)
    /\ lastCall.properties = Some(<<V_beam>>)
    /\ lastCall.family_name = Some(N_BasicWall)
    /\ lastRes.category = "door"

\* C12: keyword matching by name or by properties returns the first category
\* in the order wall, floor, column, beam, roof, door, window, stair, railing,
\* foundation that has a keyword occurring, letter case ignored, anywhere in
\* the text, whatever later categories also match; it returns other exactly
\* when no keyword of any category occurs.
TableOrder == <<"wall", "floor", "column", "beam", "roof", "door", "window",
                "stair", "railing", "foundation">>
SameLetter(a, b) ==
    a = b \/ \E i \in 1..26 : {a, b} = {UpperChars[i], LowerChars[i]}
OccursIn(kw, text) ==
    \E k \in 0..(Len(text) - Len(kw)) :
        \A j \in 1..Len(kw) : SameLetter(text[k + j], kw[j])
\* categories (by table position) with a keyword occurring in one of the texts
Matching(texts) ==
    {i \in 1..Len(CATEGORY_KEYWORDS) :
        \E t \in texts : \E j \in 1..Len(CATEGORY_KEYWORDS[i].kws) :
            OccursIn(CATEGORY_KEYWORDS[i].kws[j], t)}
FirstMatching(texts) ==
    IF Matching(texts) = {} THEN "other"
    ELSE TableOrder[CHOOSE i \in Matching(texts) : \A k \in Matching(texts) : i <= k]
TextsOf(call) ==
    IF call.op = "by_name" THEN {JoinWords(call.words)}
    ELSE {call.words[i] : i \in 1..Len(call.words)}
C12_FirstTableCategoryWins ==
    /\ \A i \in 1..Len(CATEGORY_KEYWORDS) : CATEGORY_KEYWORDS[i].cat = TableOrder[i]
    /\ Len(CATEGORY_KEYWORDS) = Len(TableOrder)
    /\ (lastRes.code = 200 /\ lastCall.file_type = "none"
          /\ lastCall.op \in {"by_name", "by_properties"}) =>
            lastRes.category = FirstMatching(TextsOf(lastCall))

\* the name "Roof BEAM" matches roof and beam and is classified as beam
C12_Witness ==
    /\ lastRes.code = 200
    /\ lastCall.file_type = "none"
    /\ lastCall.op = "by_name"
    /\ lastCall.words = <<W_Roof, W_BEAM>>
    /\ lastRes.category = "beam"

\* C13: the confidence of a reply is 1.0 when the assigned category is the
\* one the exact table gives for the request's IFC type (IFC request) or
\* category id (Revit request), 0.7 when it is not and the property keywords
\* of the given properties yield the assigned category, and 0.5 otherwise.
ExactTableHit(req, cat) ==
    IF req.file_type = "ifc"
    THEN InMap(IFC_TYPE_MAPPING, req.element_type)
            /\ MapGet(IFC_TYPE_MAPPING, req.element_type) = cat
    ELSE req.category_id.some
            /\ InMap(REVIT_CATEGORY_MAPPING, req.category_id.v)
            /\ MapGet(REVIT_CATEGORY_MAPPING, req.category_id.v) = cat
ClaimedConfidence(req, cat) ==
    IF ExactTableHit(req, cat) THEN 10
    ELSE IF GivenProps(req.properties) /\ ClassifyByProperties(req.properties.v) = cat
    THEN 7
    ELSE 5
C13_ConfidenceByAssignment ==
    lastRes.code = 200 =>
        lastRes.confidence = ClaimedConfidence(lastCall, lastRes.category)

\* C14: every classify reply is a member of ElementCategory, and it is other
\* whenever neither a table nor a keyword matches the request's arguments.
NothingMatches(req) ==
    IF req.file_type = "ifc" THEN IfcCascade(req) = "other"
    ELSE RevitCascade(req) = "other"
C14_TotalWithOtherFallback ==
    lastRes.code = 200 =>
        /\ lastRes.category \in ElementCategory
        /\ NothingMatches(lastCall) => lastRes.category = "other"

\* C15: when a process invocation on a job ends on a fatal format condition
\* (the parsing library is unavailable, or the content cannot be opened or
\* read), the caller gets 422 and the job is in error with the message.
\* Stated for a store with a single job, whose state the last process reply
\* then describes.
FatalFormatMsgs ==
    {"IfcOpenShell library not available", "Cannot open IFC file",
     "IFC file has no valid schema", "Error processing IFC file",
     "Error processing Revit file"}
C15_FormatFaultIs422 ==
    \A m \in ModelIds :
        (/\ pc = "idle"
         /\ Jobs = {m}
         /\ response.op = "process"
         /\ response.code # 404
         /\ store[m].status = "error"
         /\ store[m].error_message \in FatalFormatMsgs) => response.code = 422

\* C16: validate_file returns ok exactly when it returns no message, and it
\* returns ok only for a path that exists as a file of non-zero size, has the
\* format's extension and passed the signature check: for IFC the file opens
\* through ifcopenshell with a schema, for Revit it is an OLE compound file.
PassedSignature(call) ==
    IF call.format = "ifc" THEN ifcAvail /\ call.kind = "ifc"
    ELSE call.kind = "ole"
HasExtension(call) ==
    Ext(call.path) = (IF call.format = "ifc" THEN "ifc" ELSE "rvt")
C16_ValidatePassFail ==
    (lastRes.code = 200 /\ lastCall.file_type = "none" /\ lastCall.op = "validate") =>
        /\ lastRes.ok <=> (lastRes.msg = NoMsg)
        /\ lastRes.ok =>
              /\ lastCall.kind \notin {"missing", "dir", "empty"}
              /\ HasExtension(lastCall)
              /\ PassedSignature(lastCall)

\* C17 (as the code has it): extract_elements on an existing empty file
\* returns no elements and raises the processor's file error (IFCFileError or
\* RevitFileError); the message is "File is empty" for Revit always and for
\* IFC when ifcopenshell is available, and "IfcOpenShell library not
\* available" for IFC when it is not.
OnEmptyFile ==
    /\ lastRes.code = 200
    /\ lastCall.file_type = "none"
    /\ lastCall.op = "extract"
    /\ lastCall.kind = "empty"
C17_EmptyFileRaisesFileError ==
    OnEmptyFile =>
        /\ lastRes.raised
        /\ lastRes.elements = <<>>
        /\ lastRes.error = FileError(lastCall.format)
        /\ lastRes.msg = (IF lastCall.format = "ifc" /\ ~ifcAvail
                          THEN "IfcOpenShell library not available"
                          ELSE "File is empty")

\* C17 as stated: on an existing empty file extract_elements raises with a
\* message that contains "empty" and returns no elements, for both formats
\* and whether or not the parsing library is available.
C17_EmptyFileMessageSaysEmpty ==
    OnEmptyFile =>
        /\ lastRes.raised
        /\ lastRes.elements = <<>>
        /\ lastRes.msg = "File is empty"

\* an empty .ifc file was given to the IFC extractor without ifcopenshell
C17_Witness ==
    /\ OnEmptyFile
    /\ lastCall.format = "ifc"
    /\ lastCall.path = "m.ifc"
    /\ ~ifcAvail
    /\ lastRes.raised
    /\ lastRes.msg = "IfcOpenShell library not available"

\* C18: get_project_info and get_software_version never raise, so a job whose
\* elements were extracted (progress 90) is never turned into an error by the
\* collection of metadata.
C18_MetadataNeverFailsJob ==
    \A m \in Jobs : ~(store[m].status = "error" /\ store[m].progress = 90)

\* C19: _calculate_bounding_box returns, for a non-empty vertex list, the
\* componentwise minimum and maximum over all vertices (so every vertex lies
\* between min and max on every axis, and min = max = the vertex for a single
\* vertex), and for the empty list min = max = (0,0,0).
BoxReturned ==
    /\ lastRes.code = 200
    /\ lastCall.file_type = "none"
    /\ lastCall.op = "bounding_box"
AxisValues(vs, i) == {vs[k][i] : k \in 1..Len(vs)}
Lowest(S) == CHOOSE x \in S : \A y \in S : x <= y
Highest(S) == CHOOSE x \in S : \A y \in S : x >= y
C19_BoundingBoxIsMinMax ==
    BoxReturned =>
        LET vs == lastCall.vertices IN
        IF vs = <<>>
        THEN lastRes.min = <<0, 0, 0>> /\ lastRes.max = <<0, 0, 0>>
        ELSE /\ \A i \in 1..3 :
                  /\ lastRes.min[i] = Lowest(AxisValues(vs, i))
                  /\ lastRes.max[i] = Highest(AxisValues(vs, i))
                  /\ \A k \in 1..Len(vs) :
                        lastRes.min[i] <= vs[k][i] /\ vs[k][i] <= lastRes.max[i]
             /\ Len(vs) = 1 => lastRes.min = vs[1] /\ lastRes.max = vs[1]

\* two vertices, neither below the other on every axis, without numpy
C19_Witness ==
    /\ BoxReturned
    /\ ~lastCall.numpy
    /\ lastCall.vertices = << <<2, 0, -1>>, <<-1, 0, 2>> >>
    /\ lastRes.min = <<-1, 0, -1>>
    /\ lastRes.max = <<2, 0, 2>>

\* C20: a failure inside a process invocation that is neither a validation
\* failure nor a file error of the extractor ends the invocation with the
\* generic fault 500 and leaves the job in status error with a non-null
\* error_message; every invocation that ends, ends with an HTTP answer.
OtherFailure ==
    /\ ProcessReturns
    /\ pc # "p598"
    /\ ~ExtractorRaises
    /\ response'.code # 200
C20_OtherFailureIsGeneric500 ==
    [][/\ ProcessReturns =>
             /\ response'.op = "process"
             /\ response'.code \in {200, 400, 422, 500}
       /\ OtherFailure =>
             /\ response'.code = 500
             /\ store'[cur].status = "error"
             /\ store'[cur].error_message # NoMsg
             /\ \A m \in ModelIds \ {cur} : store'[m] = store[m]]_vars

\* the Revit file went missing between extraction and metadata collection
C20_Witness ==
    /\ pc = "idle"
    /\ response = [op |-> "process", code |-> 500]
    /\ \E m \in ModelIds :
          /\ store[m] # NoJob
          /\ store[m].file_type = "revit"
          /\ store[m].status = "error"
          /\ store[m].error_message = "No such file or directory"
          /\ store[m].elements_processed = SampleCount

\* C21: jobs are independent entries of the store.  Every step of an upload,
\* a process invocation or a status lookup changes at most one record, the
\* record of the model id the operation is about: an upload only fills an id
\* that had no record, a process invocation only writes the record it was
\* invoked for, a status lookup writes none.
Touched == {m \in ModelIds : store'[m] # store[m]}
Subject ==
    IF pc # "idle" THEN {cur}
    ELSE IF response'.op = "upload" THEN {m \in ModelIds : store[m] = NoJob}
    ELSE IF response'.op = "status" THEN {}
    ELSE {cur'}
C21_OtherJobsUnchanged ==
    [][Cardinality(Touched) <= 1 /\ Touched \subseteq Subject]_vars

\* one job was processed to the end while another, uploaded before the
\* invocation, still is as upload left it
C21_Witness ==
    /\ pc = "idle"
    /\ response = [op |-> "process", code |-> 200]
    /\ \E m \in Jobs, n \in Jobs :
          /\ m < n
          /\ store[n].status = "ready"
          /\ store[m] = NewJob(store[m].file_type, store[m].file_path)

\* C22: an upload whose file type is neither revit nor ifc (in any letter
\* case) is answered 400 whether or not the path exists, and an upload of a
\* supported type whose path does not exist is answered 404; a 400 or 404
\* upload leaves the job store unchanged.
UploadStep(ft, p, e1) ==
    /\ pc = "idle"
    /\ pc' = "idle"
    /\ response'.op = "upload"
    /\ \E e2 \in BOOLEAN, e3 \in BOOLEAN : UploadOn(ft, p, e1, e2, e3)
C22_UploadRejections ==
    [][/\ \A ft \in UploadTypes, p \in Paths, e1 \in BOOLEAN :
             UploadStep(ft, p, e1) =>
                 /\ LowerType(ft) \notin FileTypes => response'.code = 400
                 /\ (LowerType(ft) \in FileTypes /\ ~e1) => response'.code = 404
                 /\ response'.code = 400 => LowerType(ft) \notin FileTypes
                 /\ response'.code = 404 => ~e1
       /\ (response'.op = "upload" /\ response'.code \in {400, 404}) =>
             store' = store]_vars

\* an upload was turned down while the store already held a job
C22_Witness ==
    /\ response.op = "upload"
    /\ response.code \in {400, 404}
    /\ Jobs # {}

\* C23 (as the code has it): progress is written only by a process
\* invocation on its own job, at fixed places and with fixed values: 10 when
\* processing begins, 20 before validation is run, 30 before extraction
\* starts, 80 after extraction, 90 before the metadata is collected, 100
\* right after status ready.  So a job whose validation failed holds 20, a
\* job whose metadata collection failed holds 90, and the values a job ever
\* holds are 0, 10, 20, 30, 80, 90 and 100.
ProgressWrites ==
    {<<"p583", 10>>, <<"p597", 20>>, <<"p608", 30>>, <<"p614", 80>>,
     <<"p618", 90>>, <<"p624", 100>>}
ProgressHeld(vals) == \A m \in Jobs : store[m].progress \in vals
WrittenAtCheckpoints ==
    \A m \in Jobs :
        store'[m].progress # store[m].progress =>
            m = cur /\ <<pc, store'[m].progress>> \in ProgressWrites
MarksStageStart ==
    /\ (pc = "p598" /\ pc' = "idle") => store'[cur].progress = 20
    /\ (pc = "p619" /\ pc' = "idle") => store'[cur].progress = 90
    /\ pc = "p624" => store[cur].status = "ready"
C23_CheckpointsWithTen ==
    /\ []ProgressHeld({0, 10, 20, 30, 80, 90, 100})
    /\ [][WrittenAtCheckpoints /\ MarksStageStart]_vars

\* C23 as stated: the only progress values a job ever holds are 0, 20, 30,
\* 80, 90 and 100.
C23_CheckpointsWithoutTen == ProgressHeld({0, 20, 30, 80, 90, 100})

\* a job whose validation failed holds the checkpoint 20
C23_Witness ==
    /\ pc = "idle"
    /\ response = [op |-> "process", code |-> 400]
    /\ \E m \in Jobs : store[m].status = "error" /\ store[m].progress = 20

\* C24: every job always has status processing, ready or error; a status
\* changes only from processing to ready, from processing to error, or from
\* ready or error back to processing at the start of a new process invocation
\* on that id; a status lookup changes no field of any job.
StatusInEnum == \A m \in Jobs : store[m].status \in {"processing", "ready", "error"}
StatusChangeAllowed ==
    \A m \in Jobs :
        store'[m].status # store[m].status =>
            \/ /\ store[m].status = "processing"
               /\ store'[m].status \in Terminal
               /\ m = cur
            \/ /\ store[m].status \in Terminal
               /\ store'[m].status = "processing"
               /\ pc = "idle"
               /\ cur' = m
               /\ attempts'[m] = attempts[m] + 1
LookupOnlyReads ==
    (pc = "idle" /\ response'.op = "status") => store' = store
C24_StatusTransitions ==
    /\ []StatusInEnum
    /\ [][StatusChangeAllowed /\ LookupOnlyReads]_vars

\* a ready job has been put back into processing by a second invocation
C24_Witness ==
    /\ pc = "p583"
    /\ store[cur].status = "processing"
    /\ store[cur].progress = 100
    /\ attempts[cur] = 2

\* C25: the category a classify call returns is a function of the call's own
\* arguments: whatever calls were made before it on the shared classifier,
\* it is the category the same call gets from a classifier that has
\* answered no call yet.
HistoryFree(req) == ClassifyRequest(<<>>, req).cat
C25_CategoryIgnoresHistory ==
    (lastRes.code = 200 /\ lastCall.file_type \in {"ifc", "revit"}) =>
        lastRes.category = HistoryFree(lastCall)

\* C26: a job with status ready has a null error_message, after any sequence
\* of uploads and process invocations, retries of failed jobs included.
\* Stated for the states a caller can observe, between invocations.
C26_ReadyHasNoErrorMessage ==
    pc = "idle" =>
        \A m \in Jobs : store[m].status = "ready" => store[m].error_message = NoMsg

\* C27: between invocations a job's completed_at is set if and only if its
\* status is ready, and a job in status error reports only results of its
\* latest attempt: when that attempt failed before its extraction was
\* complete (progress below 80), elements_processed is 0.
C27_CompletedIffReady ==
    pc = "idle" =>
        \A m \in Jobs :
            /\ store[m].completed_at <=> store[m].status = "ready"
            /\ (store[m].status = "error" /\ store[m].progress < 80) =>
                  store[m].elements_processed = 0

\* C28: every process invocation on a job created through upload comes to an
\* end, and when it ends, whatever its outcome, the job is in status ready
\* or error, never in status processing.
EndsTerminal == ProcessReturns => store'[cur].status \in Terminal
C28_InvocationEndsTerminal ==
    /\ [][EndsTerminal]_vars
    /\ \A m \in ModelIds :
          (pc # "idle" /\ cur = m) ~> (pc = "idle" /\ store[m].status \in Terminal)

\* an invocation that failed while opening the file has ended in error
C28_Witness ==
    /\ pc = "idle"
    /\ response = [op |-> "process", code |-> 422]
    /\ \E m \in Jobs : store[m].status = "error" /\ attempts[m] = 1

\* C29: a status lookup is answered only between process invocations, never
\* inside one, and what it can observe of a job is either the record upload
\* left (status processing, progress 0, never invoked) or a terminal status;
\* never status processing with a progress of 10 to 90.
Observable(m) ==
    \/ store[m].status \in Terminal
    \/ /\ store[m].status = "processing"
       /\ store[m].progress = 0
       /\ attempts[m] = 0
LookupAnswered == response'.op = "status" /\ response' # response
C29_LookupNeverSeesInFlight ==
    /\ [](pc = "idle" => \A m \in Jobs : Observable(m))
    /\ [][LookupAnswered =>
             /\ pc = "idle"
             /\ pc' = "idle"
             /\ \A m \in Jobs : Observable(m)']_vars

\* a lookup was answered with one job processed and another only uploaded
C29_Witness ==
    /\ response = [op |-> "status", code |-> 200]
    /\ \E m \in Jobs, n \in Jobs :
          /\ store[m].status = "processing"
          /\ store[n].status \in Terminal
          /\ store[n].progress \in 20..90

\* C30: the two descriptions of a classification agree: the confidence from
\* get_classification_confidence equals the confidence in the metadata, and
\* the method is reported as a type mapping only when the assigned category
\* is the one the exact table maps the type or code to.
TypeMappingMethods == {"ifc_type_mapping", "revit_category_mapping"}
TableCategory(etype, cat) ==
    \/ InMap(IFC_TYPE_MAPPING, etype) /\ MapGet(IFC_TYPE_MAPPING, etype) = cat
    \/ /\ IsIntLiteral(etype)
       /\ InMap(REVIT_CATEGORY_MAPPING, ParseInt(etype))
       /\ MapGet(REVIT_CATEGORY_MAPPING, ParseInt(etype)) = cat
C30_ConfidenceAndMetadataAgree ==
    lastRes.code = 200 =>
        /\ lastRes.confidence = lastRes.md_confidence
        /\ lastRes.method \in TypeMappingMethods =>
              TableCategory(MetadataType(lastCall), lastRes.category)
====
